---- MODULE Spec2Model ----
(***************************************************************************)
(* flaglib (typescript/flaglib.js): the command-line flag parser.          *)
(*                                                                         *)
(* A string is a sequence of one-character strings, so that startsWith,    *)
(* slice and indexOf are computed on the characters as the code does.      *)
(* A flag's `current` and its option values are records [k, n, s]:         *)
(*   k = "null" (null), "true"/"false" (boolean), "num" (number n),        *)
(*   "nan" (NaN), "str" (string s).                                        *)
(* One `parse(argv, flags)` call is one behaviour: Init is the state at    *)
(* the top of the scan loop, one action per iteration of the loop          *)
(* (by the argument's type), one action for the code after the loop.       *)
(***************************************************************************)
EXTENDS Integers, Sequences, FiniteSets, TLC

\* Longest argument vector explored.
MaxArgs == 3

VARIABLES
    flags,          \* realFlags: the descriptors, `current` included
    argv,           \* the caller's argument array
    i,              \* index of the scan loop (1-based)
    error,          \* parse's `error`
    forceFlagEnd,   \* parse's `forceFlagEnd`
    restArgv,       \* parse's `restArgv`
    tokRet,         \* what the last parseShortFlag/parseLongFlag call returned
    pc,             \* "scan" inside the loop, "done" once parse has returned
    result,         \* parse's return value (NullErr is null)
    argv0,          \* the argument vector as passed in
    raised,         \* all the ParserError objects constructed so far
    raisedLog       \* the same, in the order of their construction

vars == <<flags, argv, i, error, forceFlagEnd, restArgv, tokRet, pc, result, argv0, raised, raisedLog>>

----------------------------------------------------------------------------
\* ErrorKind

MISSING_REQUIRED == 1
NOT_A_NUMBER == 2
NOT_ONE_OF == 3
NOT_INVERTABLE == 4
UNEXPECTED_ARG == 5
MISSING_ARG == 6
UNRECOGNIZED_FLAG == 7

\* new ParserError(kind, arg, morearg): the message is the kind's template
\* filled with arg (and morearg), so (kind, arg, more) stands for it.
ParserError(kind, arg, morearg) == [kind |-> kind, arg |-> arg, more |-> morearg]

\* null, where a ParseError is expected
NullErr == [kind |-> 0, arg |-> <<>>, more |-> <<>>]

----------------------------------------------------------------------------
\* Values

Null == [k |-> "null", n |-> 0, s |-> <<>>]
True == [k |-> "true", n |-> 0, s |-> <<>>]
False == [k |-> "false", n |-> 0, s |-> <<>>]
NaN == [k |-> "nan", n |-> 0, s |-> <<>>]
Num(n) == [k |-> "num", n |-> n, s |-> <<>>]
Str(s) == [k |-> "str", n |-> 0, s |-> s]

\* JavaScript truthiness of a value
Truthy(v) ==
    \/ v.k = "true"
    \/ v.k = "num" /\ v.n # 0
    \/ v.k = "str" /\ v.s # <<>>

----------------------------------------------------------------------------
\* Strings

Digits == {"0", "1", "2", "3", "4", "5", "6", "7", "8", "9"}

DigitVal(c) ==
    CASE c = "0" -> 0 [] c = "1" -> 1 [] c = "2" -> 2 [] c = "3" -> 3
      [] c = "4" -> 4 [] c = "5" -> 5 [] c = "6" -> 6 [] c = "7" -> 7
      [] c = "8" -> 8 [] c = "9" -> 9

\* s.startsWith(p)
StartsWith(s, p) == Len(s) >= Len(p) /\ SubSeq(s, 1, Len(p)) = p

\* s.slice(k)
Slice(s, k) == IF k >= Len(s) THEN <<>> ELSE SubSeq(s, k + 1, Len(s))

\* s.slice(0, k)
SliceTo(s, k) == IF k <= 0 THEN <<>> ELSE SubSeq(s, 1, k)

\* s.indexOf(c), 0-based, -1 when absent
IndexOf(s, c) ==
    LET hits == {k \in 1..Len(s) : s[k] = c}
    IN  IF hits = {} THEN -1
        ELSE (CHOOSE k \in hits : \A m \in hits : k <= m) - 1

IsDigits(s) == Len(s) > 0 /\ \A k \in 1..Len(s) : s[k] \in Digits

RECURSIVE DigitsVal(_)
DigitsVal(s) ==
    IF s = <<>> THEN 0
    ELSE 10 * DigitsVal(SubSeq(s, 1, Len(s) - 1)) + DigitVal(s[Len(s)])

\* Number(value), on the strings of sign and decimal digits; the empty string
\* converts to 0 and every other string to NaN.
Number(value) ==
    IF value = <<>> THEN Num(0)
    ELSE IF IsDigits(value) THEN Num(DigitsVal(value))
    ELSE IF value[1] = "-" /\ IsDigits(Tail(value)) THEN Num(0 - DigitsVal(Tail(value)))
    ELSE IF value[1] = "+" /\ IsDigits(Tail(value)) THEN Num(DigitsVal(Tail(value)))
    ELSE NaN

\* value.match(/\s/)
HasSpace(s) == \E k \in 1..Len(s) : s[k] = " "

\* stringify(value) of one string
stringifyOne(s) == IF HasSpace(s) THEN <<"\"">> \o s \o <<"\"">> ELSE s

\* stringify(value) of an array of strings: value.map(stringify).join(", ")
RECURSIVE stringify(_)
stringify(list) ==
    IF list = <<>> THEN <<>>
    ELSE IF Len(list) = 1 THEN stringifyOne(list[1])
    ELSE stringifyOne(list[1]) \o <<",", " ">> \o stringify(Tail(list))

\* array.includes(value)
Includes(list, value) == \E k \in 1..Len(list) : list[k] = value

----------------------------------------------------------------------------
\* Flag descriptors

\* options = {}: every option undefined
NoOptions ==
    [short |-> "", invertable |-> FALSE, urgent |-> FALSE, required |-> FALSE,
     hasDefault |-> FALSE, default |-> Null,
     hasArgOptional |-> FALSE, argOptional |-> Null,
     hasOneOf |-> FALSE, oneOf |-> <<>>]

MakeFlag(type, long, options) ==
    [type |-> type, long |-> long, current |-> Null,
     short |-> options.short, invertable |-> options.invertable,
     urgent |-> options.urgent, required |-> options.required,
     hasDefault |-> options.hasDefault, default |-> options.default,
     hasArgOptional |-> options.hasArgOptional, argOptional |-> options.argOptional,
     hasOneOf |-> options.hasOneOf, oneOf |-> options.oneOf]

boolean(long, options) == MakeFlag("boolean", long, options)
string(long, options) == MakeFlag("string", long, options)
number(long, options) == MakeFlag("number", long, options)

----------------------------------------------------------------------------
\* ArgType

FLAG_LONG == 0
FLAG_SHORT == 1
POSITIONAL == 2
FORCE_FLAG_END == 3

\* parseArgType taking a lone "-" for a positional argument
parseArgType_dashIsPositional(arg, forceEnd) ==
    IF forceEnd THEN POSITIONAL
    ELSE IF arg = <<"-", "-">> THEN FORCE_FLAG_END
    ELSE IF StartsWith(arg, <<"-", "-">>) THEN FLAG_LONG
    ELSE IF Len(arg) >= 2 /\ arg[1] = "-" THEN FLAG_SHORT
    ELSE POSITIONAL

parseArgType(arg, forceEnd) ==
    IF forceEnd THEN POSITIONAL
    ELSE IF arg = <<"-", "-">> THEN FORCE_FLAG_END
    ELSE IF StartsWith(arg, <<"-", "-">>) THEN FLAG_LONG
    ELSE IF Len(arg) >= 1 /\ arg[1] = "-" THEN FLAG_SHORT
    ELSE POSITIONAL

----------------------------------------------------------------------------
\* setFlagValue(flag, value, arg): the flag after the call and the error returned

\* setFlagValue's number case storing the raw string (`flag.current = value`)
setFlagValue_number_keepsString(flag, value, arg) ==
    [flag |-> [flag EXCEPT !.current = Str(value)],
     err |-> IF Number(value).k = "nan" THEN ParserError(NOT_A_NUMBER, arg, <<>>) ELSE NullErr]

\* setFlagValue's number case assigning only a valid number
setFlagValue_number_validOnly(flag, value, arg) ==
    LET num == Number(value)
    IN  IF num.k = "nan"
        THEN [flag |-> flag, err |-> ParserError(NOT_A_NUMBER, arg, <<>>)]
        ELSE [flag |-> [flag EXCEPT !.current = num], err |-> NullErr]

setFlagValue_number(flag, value, arg) ==
    LET num == Number(value)
    IN  [flag |-> [flag EXCEPT !.current = num],
         err |-> IF num.k = "nan" THEN ParserError(NOT_A_NUMBER, arg, <<>>) ELSE NullErr]

\* setFlagValue's string case without the test of oneOf
setFlagValue_string_noOneOf(flag, value, arg) ==
    [flag |-> [flag EXCEPT !.current = Str(value)], err |-> NullErr]

setFlagValue_string(flag, value, arg) ==
    [flag |-> [flag EXCEPT !.current = Str(value)],
     err |-> IF flag.hasOneOf /\ ~Includes(flag.oneOf, value)
             THEN ParserError(NOT_ONE_OF, arg, stringify(flag.oneOf))
             ELSE NullErr]

\* setFlagValue's boolean case setting the flag before it reports the error
setFlagValue_boolean_setsTrue(flag, value, arg) ==
    [flag |-> [flag EXCEPT !.current = True],
     err |-> ParserError(UNEXPECTED_ARG, arg, <<>>)]

setFlagValue_boolean(flag, value, arg) ==
    [flag |-> flag, err |-> ParserError(UNEXPECTED_ARG, arg, <<>>)]

setFlagValue(flag, value, arg) ==
    CASE flag.type = "number" -> setFlagValue_number(flag, value, arg)
      [] flag.type = "string" -> setFlagValue_string(flag, value, arg)
      [] flag.type = "boolean" -> setFlagValue_boolean(flag, value, arg)

setError(err, newError) ==
    IF newError = NullErr THEN err
    ELSE IF err = NullErr THEN newError
    ELSE IF newError.kind > err.kind THEN newError ELSE err

\* the errors constructed so far, in order, with `e` when it is one
Raise(log, e) == IF e = NullErr THEN log ELSE Append(log, e)

\* the elements of a sequence
Range(seq) == {seq[k] : k \in 1..Len(seq)}

\* flags.find(pred): the index of the first flag in the set of matches, 0 for undefined
FindFirst(matches) ==
    IF matches = {} THEN 0 ELSE CHOOSE k \in matches : \A m \in matches : k <= m

\* What parseShortFlag / parseLongFlag hand back: the flags as mutated, the
\* return value (a number `pos` when isNum, else the error `err`, NullErr for
\* null) and the errors constructed during the call.
Ret(fl, isNum, pos, err, rs) ==
    [flags |-> fl, isNum |-> isNum, pos |-> pos, err |-> err, raised |-> rs]

NoRet == [isNum |-> FALSE, pos |-> 0, err |-> NullErr]

----------------------------------------------------------------------------
\* parseShortFlag(argPos, args, flags)

\* flags.find((flag) => flag.short === miniflag)
findShort(fl, miniflag) == FindFirst({k \in 1..Len(fl) : fl[k].short = miniflag})

\* validFlag.type === "string" && validFlag.argOptional !== undefined
usesArgOptional(flag) == flag.type = "string" /\ flag.hasArgOptional

\* the test of the next argument without its parseArgType half
shortTakesNext_anyNext(args, argPos) ==
    /\ argPos + 1 <= Len(args)
    /\ args[argPos + 1] # <<>>

\* args[argPos + 1] && parseArgType(args[argPos + 1]) === ArgType.POSITIONAL
\* (forceEnd is not passed: undefined, falsy)
shortTakesNext(args, argPos) ==
    /\ argPos + 1 <= Len(args)
    /\ args[argPos + 1] # <<>>
    /\ parseArgType(args[argPos + 1], FALSE) = POSITIONAL

\* The loop over the characters of the bundle, from its k-th character on, with
\* the local `error` and the flags as they stand.
RECURSIVE shortLoop(_, _, _, _, _, _, _)
shortLoop(k, arg, argPos, args, fl, err, rs) ==
    IF k > Len(arg)
    THEN \* return error ?? argPos
         Ret(fl, err = NullErr, argPos, err, rs)
    ELSE
      LET miniflag == arg[k]
          value == Slice(arg, k)
          v == findShort(fl, miniflag)
      IN  IF v = 0
          THEN LET e == ParserError(UNRECOGNIZED_FLAG, <<miniflag>>, <<>>)
               IN  shortLoop(k + 1, arg, argPos, args, fl, setError(err, e), Raise(rs, e))
          ELSE IF fl[v].type = "boolean"
          THEN shortLoop(k + 1, arg, argPos, args,
                         [fl EXCEPT ![v].current = True], err, rs)
          ELSE IF value # <<>>
          THEN \* return setError(error, newError)
               LET r == setFlagValue(fl[v], value, <<miniflag>>)
               IN  Ret([fl EXCEPT ![v] = r.flag], FALSE, argPos,
                       setError(err, r.err), Raise(rs, r.err))
          ELSE IF usesArgOptional(fl[v])
          THEN shortLoop(k + 1, arg, argPos, args,
                         [fl EXCEPT ![v].current = fl[v].argOptional], err, rs)
          ELSE IF shortTakesNext(args, argPos)
          THEN \* return setError(error, newError) ?? argPos + 1
               LET r == setFlagValue(fl[v], args[argPos + 1], <<miniflag>>)
                   e == setError(err, r.err)
               IN  Ret([fl EXCEPT ![v] = r.flag], e = NullErr, argPos + 1,
                       e, Raise(rs, r.err))
          ELSE \* return new ParserError(ErrorKind.MISSING_ARG, arg)
               LET e == ParserError(MISSING_ARG, arg, <<>>)
               IN  Ret(fl, FALSE, argPos, e, Raise(rs, e))

\* parseShortFlag giving up the bundle at its first unrecognized character
parseShortFlag_stopsAtUnknown(argPos, args, fl) ==
    LET arg == Slice(args[argPos], 1)
        unknown == {m \in 1..Len(arg) : findShort(fl, arg[m]) = 0}
        cut == IF unknown = {} THEN Len(arg)
               ELSE CHOOSE m \in unknown : \A n \in unknown : m <= n
    IN  shortLoop(1, SubSeq(arg, 1, cut), argPos, args, fl, NullErr, <<>>)

\* parseShortFlag setting every boolean flag named anywhere in the bundle,
\* the characters of a touching value included
parseShortFlag_setsEveryBoolean(argPos, args, fl) ==
    LET arg == Slice(args[argPos], 1)
        r == shortLoop(1, arg, argPos, args, fl, NullErr, <<>>)
        named(k) == r.flags[k].type = "boolean" /\ \E m \in 1..Len(arg) :
                        findShort(r.flags, arg[m]) = k
    IN  [r EXCEPT !.flags = [k \in 1..Len(r.flags) |->
                                IF named(k) THEN [r.flags[k] EXCEPT !.current = True]
                                ELSE r.flags[k]]]

parseShortFlag(argPos, args, fl) ==
    shortLoop(1, Slice(args[argPos], 1), argPos, args, fl, NullErr, <<>>)

----------------------------------------------------------------------------
\* parseLongFlag(i, argv, flags)

isInverted(flagLong, arg) ==
    \/ StartsWith(flagLong, <<"n", "o", "-">>) /\ arg = Slice(flagLong, 3)
    \/ StartsWith(arg, <<"n", "o", "-">>) /\ flagLong = Slice(arg, 3)

\* flags.find((flag) => flag.long === argKey)
findLong(fl, argKey) == FindFirst({k \in 1..Len(fl) : fl[k].long = argKey})

\* flags.find((flag) => isInverted(flag.long, arg) || flag.long === arg)
findLongOrInverted(fl, arg) ==
    FindFirst({k \in 1..Len(fl) : isInverted(fl[k].long, arg) \/ fl[k].long = arg})

\* inversion without the switch on the type: always `false`
invertedValue_alwaysFalse(flag) == False

\* the value an inverted flag is set to, by type
invertedValue(flag) ==
    CASE flag.type = "boolean" -> False
      [] flag.type = "string" -> Str(<<>>)
      [] flag.type = "number" -> Num(0)

\* !argValue || parseArgType(argValue, false) !== ArgType.POSITIONAL
\* with argValue = argv[nxt], undefined past the end
longArgMissing(args, nxt) ==
    \/ nxt > Len(args)
    \/ args[nxt] = <<>>
    \/ parseArgType(args[nxt], FALSE) # POSITIONAL

\* the "=" branch applying argOptional when the value is empty
parseLongFlagEq_emptyUsesArgOptional(p, arg, eqIndex, fl) ==
    LET argKey == SliceTo(arg, eqIndex)
        v == findLong(fl, argKey)
        argValue == Slice(arg, eqIndex + 1)
    IN  IF v = 0
        THEN LET e == ParserError(UNRECOGNIZED_FLAG, argKey, <<>>)
             IN  Ret(fl, FALSE, p, e, <<e>>)
        ELSE IF argValue = <<>>
        THEN IF usesArgOptional(fl[v])
             THEN Ret([fl EXCEPT ![v].current = fl[v].argOptional], TRUE, p, NullErr, <<>>)
             ELSE LET e == ParserError(MISSING_ARG, argKey, <<>>)
                  IN  Ret(fl, FALSE, p, e, <<e>>)
        ELSE LET r == setFlagValue(fl[v], argValue, argKey)
             IN  Ret([fl EXCEPT ![v] = r.flag], r.err = NullErr, p, r.err,
                     Raise(<<>>, r.err))

\* the branch taken when the argument holds a "="
parseLongFlagEq(p, arg, eqIndex, fl) ==
    LET argKey == SliceTo(arg, eqIndex)
        v == findLong(fl, argKey)
        argValue == Slice(arg, eqIndex + 1)
    IN  IF v = 0
        THEN LET e == ParserError(UNRECOGNIZED_FLAG, argKey, <<>>)
             IN  Ret(fl, FALSE, p, e, <<e>>)
        ELSE IF argValue = <<>>
        THEN LET e == ParserError(MISSING_ARG, argKey, <<>>)
             IN  Ret(fl, FALSE, p, e, <<e>>)
        ELSE \* return setFlagValue(validFlag, argValue, argKey) ?? i
             LET r == setFlagValue(fl[v], argValue, argKey)
             IN  Ret([fl EXCEPT ![v] = r.flag], r.err = NullErr, p, r.err,
                     Raise(<<>>, r.err))

\* the rest of parseLongFlag, when the argument holds no "="
parseLongFlagPlain(p, args, arg, fl) ==
    LET v == findLongOrInverted(fl, arg)
        inverted == v # 0 /\ isInverted(fl[v].long, arg)
    IN  IF v = 0
        THEN LET e == ParserError(UNRECOGNIZED_FLAG, arg, <<>>)
             IN  Ret(fl, FALSE, p, e, <<e>>)
        ELSE IF inverted
        THEN IF ~fl[v].invertable
             THEN LET e == ParserError(NOT_INVERTABLE, fl[v].long, <<>>)
                  IN  Ret(fl, FALSE, p, e, <<e>>)
             ELSE Ret([fl EXCEPT ![v].current = invertedValue(fl[v])],
                      TRUE, p, NullErr, <<>>)
        ELSE IF fl[v].type = "boolean"
        THEN Ret([fl EXCEPT ![v].current = True], TRUE, p, NullErr, <<>>)
        ELSE \* const argValue = argv[++i]
             IF longArgMissing(args, p + 1)
             THEN IF usesArgOptional(fl[v])
                  THEN \* return i, which "++i" has already advanced
                       Ret([fl EXCEPT ![v].current = fl[v].argOptional],
                           TRUE, p + 1, NullErr, <<>>)
                  ELSE LET e == ParserError(MISSING_ARG, arg, <<>>)
                       IN  Ret(fl, FALSE, p, e, <<e>>)
             ELSE \* return setFlagValue(validFlag, argValue, arg) ?? i
                  LET r == setFlagValue(fl[v], args[p + 1], arg)
                  IN  Ret([fl EXCEPT ![v] = r.flag], r.err = NullErr, p + 1,
                          r.err, Raise(<<>>, r.err))

parseLongFlag(p, args, fl) ==
    LET arg == Slice(args[p], 2)
        eqIndex == IndexOf(arg, "=")
    IN  IF eqIndex >= 0
        THEN parseLongFlagEq(p, arg, eqIndex, fl)
        ELSE parseLongFlagPlain(p, args, arg, fl)

----------------------------------------------------------------------------
\* parse(argv, flags): the code after the scan loop

\* "urgent" in flag && flag.urgent && flag.current
isUrgentHit(flag) == flag.urgent /\ Truthy(flag.current)

\* flag.current === null && flag.type !== "boolean"
isUnset(flag) == flag.current = Null /\ flag.type # "boolean"

\* the test written `else if (flag.default)`: a falsy default is not applied
hasDefaultToApply_truthy(flag) == flag.hasDefault /\ Truthy(flag.default)

\* flag.default !== undefined
hasDefaultToApply(flag) == flag.hasDefault

\* The loop over realFlags from the j-th flag on: the flags and `error` when
\* it ends, and whether it ended by the "return null" of an urgent flag.
RECURSIVE postLoop(_, _, _, _)
postLoop(j, fl, err, rs) ==
    IF j > Len(fl)
    THEN [flags |-> fl, err |-> err, urgent |-> FALSE, raised |-> rs]
    ELSE IF isUrgentHit(fl[j])
    THEN [flags |-> fl, err |-> err, urgent |-> TRUE, raised |-> rs]
    ELSE IF isUnset(fl[j])
    THEN IF fl[j].required
         THEN LET e == ParserError(MISSING_REQUIRED, fl[j].long, <<>>)
              IN  postLoop(j + 1, fl, setError(err, e), Raise(rs, e))
         ELSE IF hasDefaultToApply(fl[j])
         THEN postLoop(j + 1, [fl EXCEPT ![j].current = fl[j].default], err, rs)
         ELSE postLoop(j + 1, fl, err, rs)
    ELSE postLoop(j + 1, fl, err, rs)

----------------------------------------------------------------------------
\* The inputs explored: registries built with the three constructors, and for
\* each registry the arguments that address its flags.

help == <<"h", "e", "l", "p">>
version == <<"v", "e", "r">>
verbose == <<"v", "b">>
count == <<"c", "t">>
color == <<"s", "t">>
noColor == <<"n", "o", "-", "s", "t">>
noVerbose == <<"n", "o", "-", "v", "b">>
noCount == <<"n", "o", "-", "c", "t">>

Long(name) == <<"-", "-">> \o name
LongEq(name, value) == <<"-", "-">> \o name \o <<"=">> \o value
Short(run) == <<"-">> \o run

\* Error priorities: a non-invertable boolean, a required number, a string
\* restricted by oneOf.
RegErrors ==
    << boolean(verbose, [NoOptions EXCEPT !.short = "v"]),
       number(count, [NoOptions EXCEPT !.short = "c", !.required = TRUE]),
       string(color, [NoOptions EXCEPT !.short = "s", !.hasOneOf = TRUE,
                                       !.oneOf = << <<"a">>, <<"b">> >>]) >>

ArgsErrors ==
    { LongEq(count, <<"x">>), LongEq(color, <<"c">>), Long(noVerbose),
      LongEq(verbose, <<"a">>), Short(<<"z", "c">>), Long(count), <<"a">>,
      Short(<<"v", "s">>), Short(<<"z", "v">>), LongEq(color, <<>>),
      Long(<<"z", "z">>) }

\* Urgent flags first and last in the registry, around a defaulted and a
\* required flag.
RegUrgent ==
    << boolean(help, [NoOptions EXCEPT !.short = "h", !.urgent = TRUE]),
       number(count, [NoOptions EXCEPT !.short = "c", !.hasDefault = TRUE,
                                       !.default = Num(0)]),
       string(color, [NoOptions EXCEPT !.required = TRUE]),
       boolean(version, [NoOptions EXCEPT !.short = "V", !.urgent = TRUE]) >>

ArgsUrgent ==
    { Long(help), Short(<<"V">>), <<"a">>, LongEq(count, <<"x">>), Long(color),
      Long(<<"z", "z">>), <<"-", "-">>, Short(<<"c">>), LongEq(color, <<"a">>) }

\* argOptional, invertable and falsy defaults on a string and on a number flag.
RegOptional ==
    << string(color, [NoOptions EXCEPT !.short = "s", !.invertable = TRUE,
                                       !.hasArgOptional = TRUE, !.argOptional = Str(<<"a">>),
                                       !.hasOneOf = TRUE, !.oneOf = << <<"a">>, <<"b">> >>,
                                       !.hasDefault = TRUE, !.default = Str(<<>>)]),
       number(count, [NoOptions EXCEPT !.short = "c", !.invertable = TRUE,
                                       !.hasArgOptional = TRUE, !.argOptional = Num(5),
                                       !.hasDefault = TRUE, !.default = Num(0)]),
       boolean(verbose, [NoOptions EXCEPT !.short = "v", !.invertable = TRUE]) >>

ArgsOptional ==
    { Long(color), Long(count), Long(noColor), Long(noCount), Long(noVerbose),
      Short(<<"v">>), <<"-", "-">>, <<"a">>, Short(<<"v", "s">>), Short(<<"c">>),
      LongEq(color, <<"b">>), LongEq(color, <<"c">>) }

\* A flag and, after it, a flag named "no-" + its name; a flag whose own name
\* begins with "no-"; values that parse as numbers; the empty argument.
RegNoPrefix ==
    << string(color, NoOptions),
       boolean(noColor, [NoOptions EXCEPT !.invertable = TRUE]),
       number(count, [NoOptions EXCEPT !.short = "c"]),
       boolean(noVerbose, [NoOptions EXCEPT !.invertable = TRUE]) >>

ArgsNoPrefix ==
    { Long(noColor), Long(color), Long(count), LongEq(count, <<"3">>), <<"3">>,
      Short(<<"5">>), Long(verbose), LongEq(count, <<"-", "5">>), <<>>,
      Long(noVerbose), Short(<<"c">>) }

\* A flag named "no-" + another's name, registered before that other flag.
RegShadowed ==
    << boolean(noColor, [NoOptions EXCEPT !.invertable = TRUE]),
       string(color, [NoOptions EXCEPT !.invertable = TRUE]),
       number(noCount, NoOptions),
       number(count, [NoOptions EXCEPT !.invertable = TRUE]) >>

ArgsShadowed ==
    { Long(color), Long(noColor), LongEq(color, <<"a">>), <<"a">>, Long(count),
      Long(noCount), <<"3">>, <<"-", "-">>, Short(<<"c">>) }

\* Bundles: two required flags, one restricted by oneOf, between a boolean and
\* an urgent flag, addressed by bundles with unknown characters and touching
\* values.
RegBundle ==
    << boolean(verbose, [NoOptions EXCEPT !.short = "v"]),
       string(color, [NoOptions EXCEPT !.short = "s", !.required = TRUE,
                                       !.hasOneOf = TRUE,
                                       !.oneOf = << <<"a">>, <<"b">> >>]),
       number(count, [NoOptions EXCEPT !.short = "c", !.required = TRUE]),
       boolean(help, [NoOptions EXCEPT !.short = "h", !.urgent = TRUE]) >>

ArgsBundle ==
    { LongEq(color, <<"c">>), Long(color), <<"c">>, Short(<<"s", "c">>),
      Short(<<"v", "s", "b">>), Short(<<"z", "v", "y">>), Long(<<"z", "z">>),
      LongEq(count, <<"x">>), Short(<<"h">>), Short(<<"s", "z", "v">>),
      Short(<<"z", "c", "3">>), LongEq(verbose, <<"a">>) }

\* Long arguments holding "=": unknown keys, empty values, a value that holds
\* "=" itself, the "no-" form of an invertable flag; and the lone "-".
RegEquals ==
    << string(color, [NoOptions EXCEPT !.short = "s", !.invertable = TRUE,
                                       !.hasArgOptional = TRUE,
                                       !.argOptional = Str(<<"a">>)]),
       boolean(verbose, [NoOptions EXCEPT !.short = "v", !.invertable = TRUE]),
       number(count, [NoOptions EXCEPT !.short = "c", !.hasArgOptional = TRUE,
                                       !.argOptional = Num(5)]) >>

ArgsEquals ==
    { LongEq(<<"z", "z">>, <<>>), LongEq(noVerbose, <<"a">>), LongEq(verbose, <<>>),
      LongEq(color, <<>>), LongEq(color, <<"a", "=", "b">>), LongEq(count, <<>>),
      <<"-">>, <<"a">>, Long(color), <<"-", "-">> }

Scenarios ==
    { [reg |-> RegErrors, args |-> ArgsErrors],
      [reg |-> RegUrgent, args |-> ArgsUrgent],
      [reg |-> RegOptional, args |-> ArgsOptional],
      [reg |-> RegNoPrefix, args |-> ArgsNoPrefix],
      [reg |-> RegBundle, args |-> ArgsBundle],
      [reg |-> RegEquals, args |-> ArgsEquals] }

ShadowedScenarios ==
    { [reg |-> RegShadowed, args |-> ArgsShadowed] }

SeqsUpTo(S, n) == UNION {[1..m -> S] : m \in 0..n}

----------------------------------------------------------------------------
\* parse(argv, flags)

\* the state at the top of the scan loop, for the inputs of `scenarios`
InitOver(scenarios) ==
    /\ \E sc \in scenarios :
          /\ flags = sc.reg
          /\ argv \in SeqsUpTo(sc.args, MaxArgs)
    /\ argv0 = argv
    /\ i = 1
    /\ error = NullErr
    /\ forceFlagEnd = FALSE
    /\ restArgv = <<>>
    /\ tokRet = NoRet
    /\ pc = "scan"
    /\ result = NullErr
    /\ raised = {}
    /\ raisedLog = <<>>

Init == InitOver(Scenarios)

InitShadowed == InitOver(ShadowedScenarios)

\* the loop condition i < argv.length holds and argv[i] has the type t
Scanning(t) ==
    /\ pc = "scan"
    /\ i <= Len(argv)
    /\ parseArgType(argv[i], forceFlagEnd) = t

\* case ArgType.FORCE_FLAG_END
ForceFlagEnd ==
    /\ Scanning(FORCE_FLAG_END)
    /\ forceFlagEnd' = TRUE
    /\ i' = i + 1
    /\ UNCHANGED <<flags, argv, error, restArgv, tokRet, pc, result, argv0, raised, raisedLog>>

\* case ArgType.POSITIONAL
Positional ==
    /\ Scanning(POSITIONAL)
    /\ restArgv' = Append(restArgv, argv[i])
    /\ i' = i + 1
    /\ UNCHANGED <<flags, argv, error, forceFlagEnd, tokRet, pc, result, argv0, raised, raisedLog>>

\* the loop without its `i++`: the index is left where the flag parser put it
Dispatch_noIncrement(r) ==
    /\ flags' = r.flags
    /\ tokRet' = [isNum |-> r.isNum, pos |-> r.pos, err |-> r.err]
    /\ raised' = raised \cup Range(r.raised)
    /\ raisedLog' = raisedLog \o r.raised
    /\ IF r.isNum
       THEN i' = r.pos /\ error' = error
       ELSE i' = i + 1 /\ error' = setError(error, r.err)
    /\ UNCHANGED <<argv, forceFlagEnd, restArgv, pc, result, argv0>>

\* what the loop does with the value r a flag parser returned
Dispatch(r) ==
    /\ flags' = r.flags
    /\ tokRet' = [isNum |-> r.isNum, pos |-> r.pos, err |-> r.err]
    /\ raised' = raised \cup Range(r.raised)
    /\ raisedLog' = raisedLog \o r.raised
    /\ IF r.isNum
       THEN i' = r.pos + 1 /\ error' = error
       ELSE i' = i + 1 /\ error' = setError(error, r.err)
    /\ UNCHANGED <<argv, forceFlagEnd, restArgv, pc, result, argv0>>

\* case ArgType.FLAG_SHORT
ShortFlag ==
    /\ Scanning(FLAG_SHORT)
    /\ Dispatch(parseShortFlag(i, argv, flags))

\* case ArgType.FLAG_LONG
LongFlag ==
    /\ Scanning(FLAG_LONG)
    /\ Dispatch(parseLongFlag(i, argv, flags))

\* the post-scan code with the urgent exit falling through to the final
\* `return error.message`
PostCheck_urgentKeepsError ==
    /\ pc = "scan"
    /\ i > Len(argv)
    /\ LET r == postLoop(1, flags, error, <<>>)
       IN  /\ flags' = r.flags
           /\ error' = r.err
           /\ raised' = raised \cup Range(r.raised)
           /\ raisedLog' = raisedLog \o r.raised
           /\ result' = r.err
           /\ argv' = IF r.urgent THEN argv ELSE restArgv
    /\ pc' = "done"
    /\ UNCHANGED <<i, forceFlagEnd, restArgv, tokRet, argv0>>

\* the code after the scan loop, to parse's return
PostCheck ==
    /\ pc = "scan"
    /\ i > Len(argv)
    /\ LET r == postLoop(1, flags, error, <<>>)
       IN  /\ flags' = r.flags
           /\ error' = r.err
           /\ raised' = raised \cup Range(r.raised)
           /\ raisedLog' = raisedLog \o r.raised
           /\ IF r.urgent
              THEN argv' = argv /\ result' = NullErr
              ELSE argv' = restArgv /\ result' = r.err
    /\ pc' = "done"
    /\ UNCHANGED <<i, forceFlagEnd, restArgv, tokRet, argv0>>

Next ==
    \/ ForceFlagEnd
    \/ Positional
    \/ ShortFlag
    \/ LongFlag
    \/ PostCheck

Spec == Init /\ [][Next]_vars

\* the same parser on the registry that names a flag "no-" + a later flag
SpecShadowed == InitShadowed /\ [][Next]_vars

----------------------------------------------------------------------------
\* Properties

\* some boolean flag with urgent = true has current value true
UrgentTrue ==
    \E k \in 1..Len(flags) :
        flags[k].type = "boolean" /\ flags[k].urgent /\ flags[k].current = True

\* the highest kind among the errors constructed during the pass
MaxRaisedKind ==
    CHOOSE n \in {e.kind : e \in raised} : \A e \in raised : e.kind <= n

\* C1: when no urgent flag ends up true, parse returns the message of an error
\* whose kind is the highest kind among all the errors produced during the
\* pass (every token, every character of a bundle, the post-scan check), and
\* null when none was produced.
C1_HighestKindReturned ==
    (pc = "done" /\ ~UrgentTrue) =>
        IF raised = {} THEN result = NullErr ELSE result.kind = MaxRaisedKind

\* C2: if some urgent boolean flag is true at the end of the scan, parse
\* returns null whatever errors were recorded and whatever required flags are
\* unset, wherever the urgent flag stands in the registry and in argv.
C2_UrgentReturnsNull ==
    (pc = "done" /\ UrgentTrue) => result = NullErr

\* parse has returned through an urgent flag that is neither the first flag of
\* the registry nor set by the first argument, after an error was recorded,
\* with a required flag still unset
C2_Witness ==
    /\ pc = "done"
    /\ result = NullErr
    /\ error # NullErr
    /\ Len(argv0) >= 2
    /\ parseArgType(argv0[1], FALSE) = FLAG_LONG
    /\ \E k \in 2..Len(flags) :
          /\ flags[k].urgent /\ flags[k].current = True
          /\ \A j \in 1..(k - 1) : ~(flags[j].urgent /\ flags[j].current = True)
    /\ \E k \in 1..Len(flags) : flags[k].required /\ flags[k].current = Null

\* C3: once a token has set an urgent flag to true, no later token of argv
\* changes the current value of any flag.
C3_UrgentHaltsScan ==
    [][(pc = "scan" /\ UrgentTrue /\ pc' = "scan") => flags' = flags]_vars

\* C4: whenever parse returns null, argv has been rewritten in place to hold
\* exactly the residual positional arguments, in their original order: the
\* arguments the scan collected, none of them a flag or the "--" marker unless
\* it stood after the marker.
C4_ArgvRewritten ==
    (pc = "done" /\ result = NullErr) =>
        /\ argv = restArgv
        /\ (\A m \in 1..Len(argv0) : argv0[m] # <<"-", "-">>) =>
               \A k \in 1..Len(argv) : parseArgType(argv[k], FALSE) = POSITIONAL

\* the value `v` as setFlagValue stores it in a flag of that type
Convert(flag, v) == IF flag.type = "number" THEN Number(v) ELSE Str(v)

\* the next argument exists, is not empty and does not begin with "-"
NextLooksPositional ==
    i + 1 <= Len(argv) /\ argv[i + 1] # <<>> /\ argv[i + 1][1] # "-"

\* the bundle at argv[i] ends with the short name of flag k, a string or
\* number flag without argOptional, and only boolean or unknown characters
\* stand before it (so that the last character is reached with no touching value)
BundleEndsAtValueFlag(k) ==
    LET run == Slice(argv[i], 1)
    IN  /\ Len(run) >= 1
        /\ flags[k].short = run[Len(run)]
        /\ flags[k].type # "boolean"
        /\ ~flags[k].hasArgOptional
        /\ \A m \in 1..(Len(run) - 1) : \A j \in 1..Len(flags) :
               flags[j].short = run[m] => flags[j].type = "boolean"

\* the bundle at argv[i] yields MISSING_ARG citing the whole bundle, leaves
\* flag k as it is, and the scan goes on with the next argument
BundleMissingArg(k) ==
    /\ tokRet'.err = ParserError(MISSING_ARG, Slice(argv[i], 1), <<>>)
    /\ ~tokRet'.isNum
    /\ flags'[k].current = flags[k].current
    /\ i' = i + 1

\* C5 as stated: a short-flag bundle never consumes the following token: when
\* its last character is a string/number flag with no touching value and no
\* argOptional, the result is MISSING_ARG citing the whole bundle, the flag's
\* current is unchanged and the next token is scanned on its own.
C5_BundleNeverConsumes ==
    [][\A k \in 1..Len(flags) :
          (Scanning(FLAG_SHORT) /\ BundleEndsAtValueFlag(k)) => BundleMissingArg(k)]_vars

\* C5 as amended: the same, when the next token is absent, empty or begins
\* with "-"; when it is non-empty and does not begin with "-" it is bound to
\* the flag as its value; and a bundle moves the scan past the next token in
\* no other case.
C5_BundleConsumesOnlyPositional ==
    [][/\ \A k \in 1..Len(flags) :
             (Scanning(FLAG_SHORT) /\ BundleEndsAtValueFlag(k)) =>
                 IF NextLooksPositional
                 THEN flags'[k].current = Convert(flags[k], argv[i + 1])
                 ELSE BundleMissingArg(k)
       /\ (Scanning(FLAG_SHORT) /\ i' # i + 1) =>
             (NextLooksPositional /\ i' = i + 2)]_vars

\* the bundle `-vs` (a boolean, then a string flag without argOptional) has
\* just been scanned before a flag-like argument: MISSING_ARG cites `vs`, the
\* boolean is set, the string flag is unset and the next argument is still to scan
C5_Witness ==
    /\ pc = "scan"
    /\ i >= 2 /\ i <= Len(argv)
    /\ argv[i - 1] = Short(<<"v", "s">>)
    /\ parseArgType(argv[i], FALSE) \in {FLAG_LONG, FLAG_SHORT}
    /\ tokRet.err = ParserError(MISSING_ARG, <<"v", "s">>, <<>>)
    /\ \E k \in 1..Len(flags) :
          flags[k].short = "s" /\ ~flags[k].hasArgOptional /\ flags[k].current = Null
    /\ \E k \in 1..Len(flags) : flags[k].short = "v" /\ flags[k].current = True

\* `v` is a non-empty value that satisfies flag's constraint
ValueOk(flag, v) ==
    /\ v # <<>>
    /\ flag.type = "number" => Number(v).k = "num"
    /\ (flag.type = "string" /\ flag.hasOneOf) => Includes(flag.oneOf, v)

\* flag k holds `v`, and parse returned null unless another flag is missing
BoundTo(k, v) ==
    /\ flags[k].current = Convert(flags[k], v)
    /\ \/ result = NullErr
       \/ result.kind = MISSING_REQUIRED /\ result.arg # flags[k].long

\* no flag registered before flag k is named "no-" + its name, or is inverted
\* by its name
NotShadowed(k) ==
    \A j \in 1..(k - 1) :
        /\ flags[j].long # flags[k].long
        /\ flags[j].long # <<"n", "o", "-">> \o flags[k].long
        /\ flags[k].long # <<"n", "o", "-">> \o flags[j].long

\* C6 as stated: for every string or number flag F and every non-empty v that
\* satisfies F's constraint, parsing [--F=v] and parsing [--F, v] each return
\* null (other flags permitting) and leave F.current equal to v, converted to
\* a number for a number flag.
C6_LongFormsBindValue ==
    pc = "done" =>
        \A k \in 1..Len(flags) : flags[k].type # "boolean" =>
            LET F == flags[k].long
            IN  /\ ( /\ Len(argv0) = 1
                     /\ StartsWith(argv0[1], Long(F) \o <<"=">>)
                     /\ ValueOk(flags[k], Slice(argv0[1], Len(F) + 3)) )
                       => BoundTo(k, Slice(argv0[1], Len(F) + 3))
                /\ ( /\ Len(argv0) = 2
                     /\ argv0[1] = Long(F)
                     /\ ValueOk(flags[k], argv0[2]) )
                       => BoundTo(k, argv0[2])

\* C6 as amended: the same for [--F=v]; for [--F, v] when moreover v does not
\* begin with "-" and no flag registered before F is matched by `--F` as an
\* inversion.
C6_LongFormsBindPositionalValue ==
    pc = "done" =>
        \A k \in 1..Len(flags) : flags[k].type # "boolean" =>
            LET F == flags[k].long
            IN  /\ ( /\ Len(argv0) = 1
                     /\ StartsWith(argv0[1], Long(F) \o <<"=">>)
                     /\ ValueOk(flags[k], Slice(argv0[1], Len(F) + 3)) )
                       => BoundTo(k, Slice(argv0[1], Len(F) + 3))
                /\ ( /\ Len(argv0) = 2
                     /\ argv0[1] = Long(F)
                     /\ ValueOk(flags[k], argv0[2])
                     /\ argv0[2][1] # "-"
                     /\ NotShadowed(k) )
                       => BoundTo(k, argv0[2])

\* parse has returned null from [--ct, 3] with the number flag ct holding 3
C6_Witness ==
    /\ pc = "done"
    /\ argv0 = <<Long(count), <<"3">> >>
    /\ result = NullErr
    /\ argv = <<>>
    /\ \E k \in 1..Len(flags) :
          flags[k].long = count /\ flags[k].type = "number" /\ flags[k].current = Num(3)

\* a "--" stands before position p of argv
MarkerBefore(p) == \E m \in 1..(p - 1) : argv[m] = <<"-", "-">>

\* C7: every token that stands after the first "--" of argv is appended
\* verbatim to the positionals, changes no flag and raises no error; the first
\* "--" itself is not a positional.
C7_AfterMarkerAllPositional ==
    [][(pc = "scan" /\ i <= Len(argv)) =>
          /\ MarkerBefore(i) =>
                /\ restArgv' = Append(restArgv, argv[i])
                /\ flags' = flags
                /\ error' = error
                /\ raised' = raised
          /\ (argv[i] = <<"-", "-">> /\ ~MarkerBefore(i)) => restArgv' = restArgv]_vars

\* the remainder of the long argument at argv[i]
LongArg == Slice(argv[i], 2)

\* `arg` is "no-" + L, or L begins with "no-" and `arg` is L without it
InvertsName(L, arg) ==
    \/ arg = <<"n", "o", "-">> \o L
    \/ StartsWith(L, <<"n", "o", "-">>) /\ arg = Slice(L, 3)

\* flag k is the first flag of the registry that `arg` names or inverts
FirstMatch(k, arg) ==
    \A j \in 1..(k - 1) : flags[j].long # arg /\ ~InvertsName(flags[j].long, arg)

\* no flag of the registry is named `arg`, and none before flag k is inverted by it
OnlyInverts(k, arg) ==
    /\ \A j \in 1..Len(flags) : flags[j].long # arg
    /\ \A j \in 1..(k - 1) : ~InvertsName(flags[j].long, arg)

\* what the inversion law sets a flag of that type to
InvertedCurrent(type) ==
    CASE type = "boolean" -> False
      [] type = "string" -> Str(<<>>)
      [] type = "number" -> Num(0)

\* the effect the inversion law gives the argument at argv[i] on flag k
InversionEffect(k) ==
    IF flags[k].invertable
    THEN /\ flags'[k].current = InvertedCurrent(flags[k].type)
         /\ i' = i + 1
         /\ error' = error
         /\ raised' = raised
    ELSE /\ tokRet'.err = ParserError(NOT_INVERTABLE, flags[k].long, <<>>)
         /\ tokRet'.err \in raised'
         /\ error' = setError(error, tokRet'.err)
         /\ flags'[k].current = flags[k].current

\* C8 as stated: for a descriptor with long name L, the token --no-L (or, when
\* L begins with "no-", "--" + L without that prefix) sets current to false, ""
\* or 0 by type when the descriptor is invertable, consuming no further token
\* and raising no error; otherwise it raises NOT_INVERTABLE and leaves current
\* unchanged.
C8_InversionLaw ==
    [][\A k \in 1..Len(flags) :
          (Scanning(FLAG_LONG) /\ InvertsName(flags[k].long, LongArg)) =>
              InversionEffect(k)]_vars

\* C8 as amended: the same, when no descriptor of the registry is itself named
\* like the token's remainder and L is the first descriptor the token inverts.
C8_InversionLawUnnamedToken ==
    [][\A k \in 1..Len(flags) :
          ( /\ Scanning(FLAG_LONG)
            /\ InvertsName(flags[k].long, LongArg)
            /\ OnlyInverts(k, LongArg) ) => InversionEffect(k)]_vars

\* `--no-ct` has just been scanned as the first argument: the invertable
\* number flag ct holds 0, no error, and the scan stands right after the token
C8_Witness ==
    /\ pc = "scan"
    /\ i = 2
    /\ argv[1] = Long(noCount)
    /\ error = NullErr
    /\ raised = {}
    /\ \E k \in 1..Len(flags) :
          /\ flags[k].long = count /\ flags[k].type = "number"
          /\ flags[k].invertable /\ flags[k].current = Num(0)

\* C9: a number flag declared with argOptional, given with no argument (--F at
\* the end of argv or before a flag-like token, or -f as the last character of
\* a bundle with no positional after it), takes its argOptional value and no
\* MISSING_ARG is raised.
C9_NumberArgOptional ==
    [][\A k \in 1..Len(flags) :
          ( /\ flags[k].type = "number"
            /\ flags[k].hasArgOptional
            /\ ~NextLooksPositional
            /\ \/ Scanning(FLAG_LONG) /\ LongArg = flags[k].long
                    /\ FirstMatch(k, LongArg)
               \/ Scanning(FLAG_SHORT) /\ Slice(argv[i], 1) = <<flags[k].short>> )
          => /\ flags'[k].current = flags[k].argOptional
             /\ tokRet'.err.kind # MISSING_ARG]_vars

\* C10: when parse completes with no urgent flag true, (a) every required
\* string/number flag still unset after the scan has its MISSING_REQUIRED
\* raised and parse does not return null; (b) every unset, non-required flag
\* with a default takes it; (c) every unset flag with neither stays unset;
\* (d) a flag set during the scan is neither defaulted nor reported missing.
C10_PostScanRequiredAndDefaults ==
    [][(pc = "scan" /\ pc' = "done" /\ ~UrgentTrue) =>
          \A k \in 1..Len(flags) :
              LET f == flags[k]
                  missing == ParserError(MISSING_REQUIRED, f.long, <<>>)
              IN  IF f.type = "boolean" THEN flags'[k].current = f.current
                  ELSE IF f.current # Null
                  THEN flags'[k].current = f.current /\ missing \notin raised'
                  ELSE IF f.required
                  THEN /\ missing \in raised'
                       /\ result' # NullErr
                       /\ flags'[k].current = Null
                  ELSE IF f.hasDefault
                  THEN flags'[k].current = f.default /\ missing \notin raised'
                  ELSE flags'[k].current = Null /\ missing \notin raised']_vars

\* parse has returned with no urgent flag true: the number flag never named in
\* argv holds its default 0, the required string flag is reported missing
C10_Witness ==
    /\ pc = "done"
    /\ ~UrgentTrue
    /\ Len(argv0) >= 1
    /\ \A m \in 1..Len(argv0) : parseArgType(argv0[m], FALSE) = POSITIONAL
    /\ \E k \in 1..Len(flags) :
          /\ flags[k].type = "number" /\ flags[k].hasDefault
          /\ flags[k].default = Num(0) /\ flags[k].current = Num(0)
    /\ \E k \in 1..Len(flags) :
          /\ flags[k].required /\ flags[k].current = Null
          /\ result = ParserError(MISSING_REQUIRED, flags[k].long, <<>>)

----------------------------------------------------------------------------
\* C11

\* flag k is the first flag of the registry named `name`
FirstNamed(k, name) ==
    flags[k].long = name /\ \A j \in 1..(k - 1) : flags[j].long # name

\* the characters of the bundle at argv[i]
Bundle == Slice(argv[i], 1)

\* the m-th character of the bundle at argv[i] is reached by the loop: every
\* character before it is unknown or names a boolean flag
ReachedInBundle(m) ==
    /\ m \in 1..Len(Bundle)
    /\ \A n \in 1..(m - 1) : \A j \in 1..Len(flags) :
           flags[j].short = Bundle[n] => flags[j].type = "boolean"

\* flag k is the first flag of the registry with the short name c
FirstShort(k, c) ==
    flags[k].short = c /\ \A j \in 1..(k - 1) : flags[j].short # c

\* v is a non-empty value that the string flag k, restricted by oneOf, rejects
Rejected(k, v) ==
    /\ flags[k].type = "string"
    /\ flags[k].hasOneOf
    /\ v # <<>>
    /\ ~Includes(flags[k].oneOf, v)

\* the NOT_ONE_OF error for flag k, displayed as `shown`
NotOneOf(k, shown) == ParserError(NOT_ONE_OF, shown, stringify(flags[k].oneOf))

\* the argument at argv[i] supplies a rejected value to flag k, by `--F=c`,
\* by `--F c` or by a touching short value; NOT_ONE_OF is raised for it
RejectedSupplyRaises(k) ==
    /\ ( /\ Scanning(FLAG_LONG)
         /\ StartsWith(LongArg, flags[k].long \o <<"=">>)
         /\ FirstNamed(k, flags[k].long)
         /\ Rejected(k, Slice(LongArg, Len(flags[k].long) + 1)) )
       => NotOneOf(k, flags[k].long) \in raised'
    /\ ( /\ Scanning(FLAG_LONG)
         /\ LongArg = flags[k].long
         /\ FirstMatch(k, LongArg)
         /\ NextLooksPositional
         /\ Rejected(k, argv[i + 1]) )
       => NotOneOf(k, flags[k].long) \in raised'
    /\ Scanning(FLAG_SHORT) =>
          \A m \in 1..Len(Bundle) :
              ( /\ ReachedInBundle(m)
                /\ FirstShort(k, Bundle[m])
                /\ Rejected(k, Slice(Bundle, m)) )
              => NotOneOf(k, <<Bundle[m]>>) \in raised'

\* some NOT_ONE_OF error was raised during the pass
NotOneOfRaised == \E e \in raised : e.kind = NOT_ONE_OF

----------------------------------------------------------------------------
\* C12

\* the argument at argv[i] is `--B=v` with a non-empty v, B the boolean flag k
BindsBoolean(k) ==
    /\ Scanning(FLAG_LONG)
    /\ flags[k].type = "boolean"
    /\ FirstNamed(k, flags[k].long)
    /\ StartsWith(LongArg, flags[k].long \o <<"=">>)
    /\ Slice(LongArg, Len(flags[k].long) + 1) # <<>>

\* C12: binding a value to a boolean flag (--B=v, v non-empty) always yields
\* an error of kind UNEXPECTED_ARG and never changes the flag's current value;
\* UNEXPECTED_ARG has priority 5: when parse returns an error, it outranks
\* NOT_INVERTABLE and every lower kind, and is outranked by MISSING_ARG.
C12_BooleanBindUnexpectedArg ==
    /\ [][\A k \in 1..Len(flags) : BindsBoolean(k) =>
             /\ tokRet'.err = ParserError(UNEXPECTED_ARG, flags[k].long, <<>>)
             /\ ~tokRet'.isNum
             /\ tokRet'.err \in raised'
             /\ error' = setError(error, tokRet'.err)
             /\ flags' = flags]_vars
    /\ [](/\ UNEXPECTED_ARG = 5
          /\ NOT_INVERTABLE < UNEXPECTED_ARG
          /\ UNEXPECTED_ARG < MISSING_ARG
          /\ (pc = "done" /\ ~UrgentTrue /\ \E e \in raised : e.kind = UNEXPECTED_ARG) =>
                /\ result.kind >= UNEXPECTED_ARG
                /\ (\A e \in raised : e.kind <= UNEXPECTED_ARG) =>
                      result.kind = UNEXPECTED_ARG
                /\ (\E e \in raised : e.kind = MISSING_ARG) =>
                      result.kind > UNEXPECTED_ARG)

\* parse has returned the UNEXPECTED_ARG error of `--vb=a` although `--no-vb`
\* raised NOT_INVERTABLE before it, and the boolean flag is still unset
C12_Witness ==
    /\ pc = "done"
    /\ Len(argv0) >= 2
    /\ argv0[1] = Long(noVerbose)
    /\ argv0[2] = LongEq(verbose, <<"a">>)
    /\ ParserError(NOT_INVERTABLE, verbose, <<>>) \in raised
    /\ result = ParserError(UNEXPECTED_ARG, verbose, <<>>)
    /\ \E k \in 1..Len(flags) :
          flags[k].long = verbose /\ flags[k].type = "boolean" /\ flags[k].current = Null

----------------------------------------------------------------------------
\* C13

\* the first error of that kind in the order of construction
FirstOfKind(log, kind) ==
    log[CHOOSE m \in 1..Len(log) :
            log[m].kind = kind /\ \A n \in 1..(m - 1) : log[n].kind # kind]

\* C13: among errors of the same kind the earliest one produced is the one
\* reported: when parse returns an error of the maximal kind raised during the
\* pass, it is the first error of that kind in scan order (tokens in argv
\* order, characters in bundle order, then the unset required flags in
\* registry order).
C13_TiesFavorFirst ==
    (pc = "done" /\ ~UrgentTrue /\ raisedLog # <<>> /\ result.kind = MaxRaisedKind) =>
        result = FirstOfKind(raisedLog, MaxRaisedKind)

\* the same, for the passes in which no bundle ended by MISSING_ARG after an
\* unrecognized character
C13_TiesFavorFirstUndropped ==
    (pc = "done" /\ ~UrgentTrue /\ raisedLog # <<>> /\ result.kind = MaxRaisedKind
        /\ \A m \in 1..(Len(raisedLog) - 1) :
              ~(raisedLog[m].kind = UNRECOGNIZED_FLAG /\ Len(raisedLog[m].arg) = 1
                /\ raisedLog[m + 1].kind = MISSING_ARG)) =>
        result = FirstOfKind(raisedLog, MaxRaisedKind)

----------------------------------------------------------------------------
\* C14

\* the long argument at argv[i], without "=", names the string or number flag
\* k and the next argument is there to be bound as its value
LongBindsNext(k) ==
    /\ Scanning(FLAG_LONG)
    /\ LongArg = flags[k].long
    /\ FirstMatch(k, LongArg)
    /\ flags[k].type # "boolean"
    /\ NextLooksPositional

\* C14: when a long string/number flag without "=" binds the next token as its
\* value, the scan advances past that token, whether or not the bind reports
\* NOT_A_NUMBER or NOT_ONE_OF: the token is consumed once and is never also
\* appended to the residual positionals.
C14_LongValueConsumedOnce ==
    [][\A k \in 1..Len(flags) : LongBindsNext(k) =>
          /\ flags'[k].current = Convert(flags[k], argv[i + 1])
          /\ i' = i + 2
          /\ restArgv' = restArgv]_vars

\* the same, for the binds that report no error
C14_LongValidValueConsumedOnce ==
    [][\A k \in 1..Len(flags) :
          (LongBindsNext(k) /\ ValueOk(flags[k], argv[i + 1])) =>
              /\ flags'[k].current = Convert(flags[k], argv[i + 1])
              /\ i' = i + 2
              /\ restArgv' = restArgv]_vars

----------------------------------------------------------------------------
\* C15

\* the long argument at argv[i], without "=", names the flag k declared with
\* argOptional, and the next argument is another flag or "--"
LongOptionalBeforeFlag(k) ==
    /\ Scanning(FLAG_LONG)
    /\ LongArg = flags[k].long
    /\ FirstMatch(k, LongArg)
    /\ flags[k].type = "string"
    /\ flags[k].hasArgOptional
    /\ i + 1 <= Len(argv)
    /\ parseArgType(argv[i + 1], FALSE) # POSITIONAL

\* C15: when a long flag with argOptional is given without "=" and the next
\* token is another flag or "--", the flag takes its argOptional value and
\* consumes no token: the next token is the one scanned next.
C15_ArgOptionalConsumesNothing ==
    [][\A k \in 1..Len(flags) : LongOptionalBeforeFlag(k) =>
          /\ flags'[k].current = flags[k].argOptional
          /\ i' = i + 1]_vars

\* the same, when the flag is the last argument
C15_ArgOptionalAtEnd ==
    [][\A k \in 1..Len(flags) :
          ( /\ Scanning(FLAG_LONG)
            /\ LongArg = flags[k].long
            /\ FirstMatch(k, LongArg)
            /\ flags[k].type = "string"
            /\ flags[k].hasArgOptional
            /\ i = Len(argv) ) =>
              /\ flags'[k].current = flags[k].argOptional
              /\ error' = error
              /\ pc' = "scan"]_vars

----------------------------------------------------------------------------
\* C16

\* C16: when parse short-circuits on an urgent flag, all required/default
\* post-checks are skipped: no flag receives its default, every flag is left
\* as the scan left it, whatever the order of the descriptors.
C16_UrgentSkipsDefaults ==
    [][(pc = "scan" /\ pc' = "done" /\ UrgentTrue) => flags' = flags]_vars

\* the same, for the flags registered after the first urgent flag that is true
C16_UrgentSkipsLaterDefaults ==
    [][(pc = "scan" /\ pc' = "done" /\ UrgentTrue) =>
          \A k \in 1..Len(flags) :
              (\E j \in 1..(k - 1) : isUrgentHit(flags[j])) =>
                  flags'[k] = flags[k]]_vars

----------------------------------------------------------------------------
\* C17

\* the values that the argument at argv[i] binds to the string or number flag
\* k: by `--F=v`, by `--F v`, by a touching short value, or by a bundle that
\* ends with the flag's short name before a positional argument
BoundValues(k) ==
    IF flags[k].type = "boolean" THEN {}
    ELSE IF Scanning(FLAG_LONG)
    THEN {Slice(LongArg, Len(flags[k].long) + 1) : x \in
             {y \in {1} : /\ StartsWith(LongArg, flags[k].long \o <<"=">>)
                          /\ FirstNamed(k, flags[k].long)
                          /\ Slice(LongArg, Len(flags[k].long) + 1) # <<>>}}
         \cup
         {argv[i + 1] : x \in
             {y \in {1} : /\ LongArg = flags[k].long
                          /\ FirstMatch(k, LongArg)
                          /\ NextLooksPositional}}
    ELSE IF Scanning(FLAG_SHORT)
    THEN {Slice(Bundle, m) : m \in
             {n \in 1..(Len(Bundle) - 1) :
                  ReachedInBundle(n) /\ FirstShort(k, Bundle[n])}}
         \cup
         {argv[i + 1] : x \in
             {y \in {1} : /\ ReachedInBundle(Len(Bundle))
                          /\ FirstShort(k, Bundle[Len(Bundle)])
                          /\ ~(flags[k].type = "string" /\ flags[k].hasArgOptional)
                          /\ NextLooksPositional}}
    ELSE {}

\* the flag holds the result of a failed bind: NaN, or a string outside oneOf
HoldsFailedValue(flag) ==
    \/ flag.type = "number" /\ flag.current = NaN
    \/ /\ flag.type = "string" /\ flag.hasOneOf
       /\ flag.current.k = "str" /\ ~Includes(flag.oneOf, flag.current.s)

\* C17: a failed bind still overwrites the flag: after a bind that returns
\* NOT_A_NUMBER the number flag holds the invalid conversion result (NaN), and
\* after a bind that returns NOT_ONE_OF the string flag holds the rejected raw
\* value; such a flag is not reported as MISSING_REQUIRED and does not receive
\* its default in the post-scan step.
C17_FailedBindOverwrites ==
    /\ [][\A k \in 1..Len(flags) : \A v \in BoundValues(k) :
             /\ (flags[k].type = "number" /\ Number(v) = NaN) =>
                   /\ flags'[k].current = NaN
                   /\ tokRet'.err.kind >= NOT_A_NUMBER
                   /\ \E e \in raised' : e.kind = NOT_A_NUMBER
             /\ Rejected(k, v) =>
                   /\ flags'[k].current = Str(v)
                   /\ tokRet'.err.kind >= NOT_ONE_OF
                   /\ \E e \in raised' : e.kind = NOT_ONE_OF]_vars
    /\ [][(pc = "scan" /\ pc' = "done") =>
             \A k \in 1..Len(flags) : HoldsFailedValue(flags[k]) =>
                 /\ flags'[k].current = flags[k].current
                 /\ ParserError(MISSING_REQUIRED, flags[k].long, <<>>) \notin raised']_vars

\* parse has returned from [--ct=x, --st=c]: the required number flag holds
\* NaN, the required string flag holds the rejected "c", and MISSING_REQUIRED
\* was raised for neither
C17_Witness ==
    /\ pc = "done"
    /\ argv0 = <<LongEq(count, <<"x">>), LongEq(color, <<"c">>)>>
    /\ \E k \in 1..Len(flags) :
          /\ flags[k].long = count /\ flags[k].required /\ flags[k].current = NaN
    /\ \E k \in 1..Len(flags) :
          /\ flags[k].long = color /\ flags[k].required /\ flags[k].hasOneOf
          /\ flags[k].current = Str(<<"c">>)
    /\ \A e \in raised : e.kind # MISSING_REQUIRED
    /\ result.kind = NOT_ONE_OF

----------------------------------------------------------------------------
\* C18

\* no flag of the registry has the short name c
UnknownShort(c) == \A j \in 1..Len(flags) : flags[j].short # c

\* C18: an unrecognized character in a short-flag bundle does not abort the
\* bundle: UNRECOGNIZED_FLAG is recorded citing that single character, and
\* every later character the loop reaches is still processed: a later boolean
\* flag is set to true, a later flag with a touching value is bound to it.
C18_UnknownCharacterGoesOn ==
    [][Scanning(FLAG_SHORT) =>
          \A m \in 1..Len(Bundle) :
              (ReachedInBundle(m) /\ UnknownShort(Bundle[m])) =>
                  /\ ParserError(UNRECOGNIZED_FLAG, <<Bundle[m]>>, <<>>) \in raised'
                  /\ ~tokRet'.isNum
                  /\ error' # NullErr
                  /\ \A n \in (m + 1)..Len(Bundle) : \A k \in 1..Len(flags) :
                        (ReachedInBundle(n) /\ FirstShort(k, Bundle[n])) =>
                            IF flags[k].type = "boolean"
                            THEN flags'[k].current = True
                            ELSE Slice(Bundle, n) # <<>> =>
                                    flags'[k].current = Convert(flags[k], Slice(Bundle, n))]_vars

\* [-zvy, -zc3] has been scanned: the boolean after `z` is set, the number
\* flag after `z` holds 3, and the errors of z and of y have been raised
C18_Witness ==
    /\ pc = "scan"
    /\ i = 3
    /\ argv = <<Short(<<"z", "v", "y">>), Short(<<"z", "c", "3">>)>>
    /\ \E k \in 1..Len(flags) : flags[k].short = "v" /\ flags[k].current = True
    /\ \E k \in 1..Len(flags) : flags[k].short = "c" /\ flags[k].current = Num(3)
    /\ ParserError(UNRECOGNIZED_FLAG, <<"z">>, <<>>) \in raised
    /\ ParserError(UNRECOGNIZED_FLAG, <<"y">>, <<>>) \in raised
    /\ error = ParserError(UNRECOGNIZED_FLAG, <<"z">>, <<>>)

----------------------------------------------------------------------------
\* C19

\* the errors constructed by the step
NewlyRaised == SubSeq(raisedLog', Len(raisedLog) + 1, Len(raisedLog'))

\* C19: in a short-flag bundle, the first string/number flag that has
\* characters after it takes the whole remainder of the token as its value and
\* ends the processing of the token: the booleans before it are set to true,
\* no character after it is interpreted as a flag (no other flag changes, no
\* UNRECOGNIZED_FLAG is raised for a later character) and the scan goes on
\* with the next argument.
C19_TouchingValueEndsBundle ==
    [][Scanning(FLAG_SHORT) =>
          \A m \in 1..(Len(Bundle) - 1) : \A k \in 1..Len(flags) :
              ( /\ ReachedInBundle(m)
                /\ FirstShort(k, Bundle[m])
                /\ flags[k].type # "boolean" ) =>
                  LET before == {j \in 1..Len(flags) :
                                    \E n \in 1..(m - 1) : FirstShort(j, Bundle[n])}
                      unknown == {n \in 1..(m - 1) : UnknownShort(Bundle[n])}
                  IN  /\ flags'[k].current = Convert(flags[k], Slice(Bundle, m))
                      /\ \A j \in before : flags'[j].current = True
                      /\ \A j \in 1..Len(flags) :
                            (j # k /\ j \notin before) => flags'[j] = flags[j]
                      /\ Cardinality({x \in 1..Len(NewlyRaised) :
                                         NewlyRaised[x].kind = UNRECOGNIZED_FLAG})
                            = Cardinality(unknown)
                      /\ \A x \in 1..Len(NewlyRaised) :
                            \/ NewlyRaised[x].kind = UNRECOGNIZED_FLAG
                            \/ /\ NewlyRaised[x].kind \in {NOT_A_NUMBER, NOT_ONE_OF}
                               /\ NewlyRaised[x].arg = <<Bundle[m]>>
                      /\ i' = i + 1]_vars

\* `-szv` has been scanned: the string flag s holds "zv", the boolean v named
\* by the last character is unset and no UNRECOGNIZED_FLAG was raised for `z`
C19_Witness ==
    /\ pc = "scan"
    /\ i = 2
    /\ argv[1] = Short(<<"s", "z", "v">>)
    /\ \E k \in 1..Len(flags) : flags[k].short = "s" /\ flags[k].current = Str(<<"z", "v">>)
    /\ \E k \in 1..Len(flags) : flags[k].short = "v" /\ flags[k].current = Null
    /\ \A e \in raised : e.kind # UNRECOGNIZED_FLAG
    /\ raisedLog # <<>>

----------------------------------------------------------------------------
\* C20

\* the token t, standing on its own, names flag k: by its long name (with or
\* without "=", or inverted) or by a character of a bundle
Addresses(k, t) ==
    \/ /\ parseArgType(t, FALSE) = FLAG_LONG
       /\ LET arg == Slice(t, 2)
              eqIndex == IndexOf(arg, "=")
              key == IF eqIndex >= 0 THEN SliceTo(arg, eqIndex) ELSE arg
          IN  key = flags[k].long \/ (eqIndex < 0 /\ InvertsName(flags[k].long, key))
    \/ /\ parseArgType(t, FALSE) = FLAG_SHORT
       /\ \E m \in 2..Len(t) : t[m] = flags[k].short

\* the values that the token t writes to flag k by itself, with no help of the
\* next token: `--F=v`, `--B`, an inversion of an invertable flag, `-b`
WrittenBy(k, t) ==
    IF parseArgType(t, FALSE) = FLAG_LONG
    THEN LET arg == Slice(t, 2)
             eqIndex == IndexOf(arg, "=")
         IN  IF eqIndex >= 0
             THEN {Convert(flags[k], Slice(arg, eqIndex + 1)) : x \in
                      {y \in {1} : /\ SliceTo(arg, eqIndex) = flags[k].long
                                   /\ FirstNamed(k, flags[k].long)
                                   /\ flags[k].type # "boolean"
                                   /\ Slice(arg, eqIndex + 1) # <<>>}}
             ELSE {True : x \in
                      {y \in {1} : /\ arg = flags[k].long
                                   /\ FirstMatch(k, arg)
                                   /\ flags[k].type = "boolean"}}
                  \cup
                  {InvertedCurrent(flags[k].type) : x \in
                      {y \in {1} : /\ InvertsName(flags[k].long, arg)
                                   /\ OnlyInverts(k, arg)
                                   /\ flags[k].invertable}}
    ELSE IF parseArgType(t, FALSE) = FLAG_SHORT
    THEN {True : x \in
             {y \in {1} : /\ Len(t) = 2
                          /\ FirstShort(k, t[2])
                          /\ flags[k].type = "boolean"}}
    ELSE {}

\* the positions of argv0, before any "--", whose token names flag k
Supplies(k) ==
    {p \in 1..Len(argv0) :
        /\ \A m \in 1..p : argv0[m] # <<"-", "-">>
        /\ Addresses(k, argv0[p])}

\* the last position of argv0 whose token names flag k
LastSupply(k) == CHOOSE p \in Supplies(k) : \A q \in Supplies(k) : q <= p

\* C20: supplying the same flag several times is not an error and the last
\* write wins: when several tokens of argv supply a flag, its current value at
\* the end of the scan is the one written by the last of them (a later
\* inversion overrides an earlier set, a later value overrides an earlier
\* inversion or value), for all three kinds.
C20_LastWriteWins ==
    (pc = "scan" /\ i > Len(argv)) =>
        \A k \in 1..Len(flags) :
            Cardinality(Supplies(k)) >= 2 =>
                \A w \in WrittenBy(k, argv0[LastSupply(k)]) : flags[k].current = w

\* a flag with argOptional is given in the long form, without "=", directly
\* before a flag-like token
OptionalLongBeforeFlag ==
    \E p \in 1..(Len(argv0) - 1) : \E k \in 1..Len(flags) :
        /\ argv0[p] = Long(flags[k].long)
        /\ flags[k].type = "string" /\ flags[k].hasArgOptional
        /\ parseArgType(argv0[p + 1], FALSE) # POSITIONAL

\* the same, for the argument vectors in which no flag with argOptional
\* stands directly before a flag-like token
C20_LastScannedWriteWins ==
    (pc = "scan" /\ i > Len(argv) /\ ~OptionalLongBeforeFlag) =>
        \A k \in 1..Len(flags) :
            Cardinality(Supplies(k)) >= 2 =>
                \A w \in WrittenBy(k, argv0[LastSupply(k)]) : flags[k].current = w

----------------------------------------------------------------------------
\* C21

\* the long argument at argv[i] holds a "="
HasEq == IndexOf(LongArg, "=") >= 0

\* what stands before the first "=" of the long argument at argv[i]
EqKey == SliceTo(LongArg, IndexOf(LongArg, "="))

\* what stands after the first "=" of the long argument at argv[i]
EqValue == Slice(LongArg, IndexOf(LongArg, "=") + 1)

\* C21: a long token holding "=" is split at the first "=": an unknown key
\* yields UNRECOGNIZED_FLAG (also with an empty value, also when the key is
\* "no-" + the name of an invertable flag); a known key with an empty value
\* yields MISSING_ARG for every kind of flag, argOptional or not, and leaves
\* the flag unchanged; otherwise the value, which may hold "=" itself, is
\* bound to the flag (a boolean refuses it); no further token is consumed.
C21_EqualsForm ==
    [][(Scanning(FLAG_LONG) /\ HasEq) =>
          /\ i' = i + 1
          /\ restArgv' = restArgv
          /\ IF \A k \in 1..Len(flags) : flags[k].long # EqKey
             THEN /\ tokRet'.err = ParserError(UNRECOGNIZED_FLAG, EqKey, <<>>)
                  /\ tokRet'.err \in raised'
                  /\ error' = setError(error, tokRet'.err)
                  /\ flags' = flags
             ELSE \A k \in 1..Len(flags) : FirstNamed(k, EqKey) =>
                     /\ \A j \in 1..Len(flags) : j # k => flags'[j] = flags[j]
                     /\ IF EqValue = <<>>
                        THEN /\ tokRet'.err = ParserError(MISSING_ARG, EqKey, <<>>)
                             /\ tokRet'.err \in raised'
                             /\ error' = setError(error, tokRet'.err)
                             /\ flags' = flags
                        ELSE IF flags[k].type = "boolean"
                        THEN /\ tokRet'.err = ParserError(UNEXPECTED_ARG, EqKey, <<>>)
                             /\ flags' = flags
                        ELSE /\ flags'[k].current = Convert(flags[k], EqValue)
                             /\ ValueOk(flags[k], EqValue) =>
                                   (tokRet'.isNum /\ error' = error /\ raised' = raised)]_vars

\* [--no-vb=a, --st=, --st=a=b] has been scanned: the key no-vb of the
\* invertable flag vb is unrecognized, the empty value of the argOptional flag
\* st raised MISSING_ARG, and st holds "a=b"
C21_Witness ==
    /\ pc = "scan"
    /\ i = 4
    /\ argv = <<LongEq(noVerbose, <<"a">>), LongEq(color, <<>>),
                LongEq(color, <<"a", "=", "b">>)>>
    /\ raisedLog = <<ParserError(UNRECOGNIZED_FLAG, noVerbose, <<>>),
                     ParserError(MISSING_ARG, color, <<>>)>>
    /\ \E k \in 1..Len(flags) :
          /\ flags[k].long = color /\ flags[k].hasArgOptional
          /\ flags[k].current = Str(<<"a", "=", "b">>)
    /\ \E k \in 1..Len(flags) :
          flags[k].long = verbose /\ flags[k].invertable /\ flags[k].current = Null
    /\ restArgv = <<>>

----------------------------------------------------------------------------
\* C22

\* the calls explored for termination: the registry with argOptional flags,
\* and arguments of every type
LiveScenarios ==
    { [reg |-> RegOptional,
       args |-> {Long(color), <<"-", "-">>, <<"a">>, Short(<<"v", "s">>), Short(<<"c">>)}],
      [reg |-> RegBundle,
       args |-> {Short(<<"z", "v", "y">>), Short(<<"s", "z", "v">>),
                 Short(<<"z", "c", "3">>)}] }

InitLive == InitOver(LiveScenarios)

\* parse runs to its end: a call that has begun executes its loop and the code
\* after it, one statement after the other
SpecLive == InitLive /\ [][Next]_vars /\ WF_vars(Next)

\* the characters parseShortFlag's loop visits in the bundle `arg`, from the
\* k-th on, in the order of the visits
RECURSIVE shortVisits(_, _, _, _, _)
shortVisits(k, arg, argPos, args, fl) ==
    IF k > Len(arg) THEN <<>>
    ELSE LET v == findShort(fl, arg[k])
         IN  IF v = 0 \/ fl[v].type = "boolean"
                \/ (Slice(arg, k) = <<>> /\ usesArgOptional(fl[v]))
             THEN <<k>> \o shortVisits(k + 1, arg, argPos, args, fl)
             ELSE <<k>>

\* the visits of a bundle go up one character at a time from the first
VisitsInOrder(visits, arg) ==
    /\ Len(visits) <= Len(arg)
    /\ \A n \in 1..Len(visits) : visits[n] = n

\* C22: parse terminates: the scan index never decreases and each token is
\* visited at most once by the main loop, each character of a bundle at most
\* once, and the pass always ends by returning null or one error message.
C22_ParseTerminates ==
    /\ [][(pc = "scan" /\ pc' = "scan") => (i' > i /\ i' <= Len(argv) + 2)]_vars
    /\ [][Scanning(FLAG_SHORT) =>
             VisitsInOrder(shortVisits(1, Bundle, i, argv, flags), Bundle)]_vars
    /\ [][pc = "done" => UNCHANGED vars]_vars
    /\ [](pc = "done" => (result = NullErr \/ result.kind \in 1..7))
    /\ <>(pc = "done")

\* parse has returned an error after a scan of three arguments, one of them a
\* bundle of three characters
C22_Witness ==
    /\ pc = "done"
    /\ Len(argv0) = 3
    /\ \E m \in 1..3 : parseArgType(argv0[m], FALSE) = FLAG_SHORT /\ Len(argv0[m]) = 4
    /\ result # NullErr
    /\ i > 3

----------------------------------------------------------------------------
\* C23

\* the flag's current value is a member of its oneOf list
HoldsMember(flag) == flag.current.k = "str" /\ Includes(flag.oneOf, flag.current.s)

\* C23 as stated: whenever parse returns null and no urgent flag is true,
\* every string flag declared with oneOf holds a current value that is unset
\* or a member of its oneOf list, whatever way the value was written.
C23_OneOfHolds ==
    (pc = "done" /\ result = NullErr /\ ~UrgentTrue) =>
        \A k \in 1..Len(flags) :
            (flags[k].type = "string" /\ flags[k].hasOneOf) =>
                (flags[k].current = Null \/ HoldsMember(flags[k]))

\* C23 as amended: the value is unset, a member of oneOf, the empty string of
\* an inversion when the flag is invertable, the flag's argOptional value or
\* its default: only the values bound from argv are tested against oneOf.
C23_OneOfHoldsForBoundValues ==
    (pc = "done" /\ result = NullErr /\ ~UrgentTrue) =>
        \A k \in 1..Len(flags) :
            (flags[k].type = "string" /\ flags[k].hasOneOf) =>
                \/ flags[k].current = Null
                \/ HoldsMember(flags[k])
                \/ flags[k].invertable /\ flags[k].current = Str(<<>>)
                \/ flags[k].hasArgOptional /\ flags[k].current = flags[k].argOptional
                \/ flags[k].hasDefault /\ flags[k].current = flags[k].default

\* parse has returned null from [--no-st, --st=b]: the flag restricted to
\* [a, b] was inverted, then bound to the member b
C23_Witness ==
    /\ pc = "done"
    /\ result = NullErr
    /\ ~UrgentTrue
    /\ argv0 = <<Long(noColor), LongEq(color, <<"b">>)>>
    /\ \E k \in 1..Len(flags) :
          /\ flags[k].long = color /\ flags[k].hasOneOf /\ flags[k].invertable
          /\ flags[k].current = Str(<<"b">>)

----------------------------------------------------------------------------
\* C24

\* C24: when the remainder of a long token without "=" is exactly the long
\* name of a registered descriptor, the token is applied to the first
\* descriptor with that name as a plain occurrence, also when a descriptor
\* registered earlier would match the token as an inversion: a boolean is set
\* to true, a string or number flag takes the next positional token as its
\* value, no other flag changes and no NOT_INVERTABLE is raised.
C24_ExactNameWins ==
    [][(Scanning(FLAG_LONG) /\ ~HasEq) =>
          \A k \in 1..Len(flags) : FirstNamed(k, LongArg) =>
              /\ \A j \in 1..Len(flags) : j # k => flags'[j] = flags[j]
              /\ tokRet'.err.kind # NOT_INVERTABLE
              /\ flags[k].type = "boolean" =>
                    (flags'[k].current = True /\ tokRet'.isNum /\ i' = i + 1)
              /\ (flags[k].type # "boolean" /\ NextLooksPositional) =>
                    flags'[k].current = Convert(flags[k], argv[i + 1])]_vars

\* the same, when no descriptor registered before the named one is inverted
\* by the token
C24_ExactNameWinsUnshadowed ==
    [][(Scanning(FLAG_LONG) /\ ~HasEq) =>
          \A k \in 1..Len(flags) :
              (FirstNamed(k, LongArg) /\ FirstMatch(k, LongArg)) =>
                  /\ \A j \in 1..Len(flags) : j # k => flags'[j] = flags[j]
                  /\ tokRet'.err.kind # NOT_INVERTABLE
                  /\ flags[k].type = "boolean" =>
                        (flags'[k].current = True /\ tokRet'.isNum /\ i' = i + 1)
                  /\ (flags[k].type # "boolean" /\ NextLooksPositional) =>
                        flags'[k].current = Convert(flags[k], argv[i + 1])]_vars

----------------------------------------------------------------------------
\* C25

\* C25: a lone "-" met before any "--" is a short-flag bundle with an empty
\* run: it raises no error, changes no flag, consumes no following token and
\* is not appended to the residual positionals, so that it is gone from argv
\* when parse has rewritten it.
C25_LoneDashVanishes ==
    /\ [][(pc = "scan" /\ i <= Len(argv) /\ ~forceFlagEnd /\ argv[i] = <<"-">>) =>
             /\ parseArgType(argv[i], forceFlagEnd) = FLAG_SHORT
             /\ tokRet'.isNum
             /\ flags' = flags
             /\ error' = error
             /\ raisedLog' = raisedLog
             /\ restArgv' = restArgv
             /\ i' = i + 1]_vars
    /\ []((pc = "done" /\ ~UrgentTrue
             /\ \A m \in 1..Len(argv0) : argv0[m] # <<"-", "-">>) =>
                \A m \in 1..Len(argv) : argv[m] # <<"-">>)

\* parse has returned null from [-, a]: nothing was raised, no flag is set and
\* argv holds the positional a alone
C25_Witness ==
    /\ pc = "done"
    /\ argv0 = << <<"-">>, <<"a">> >>
    /\ argv = << <<"a">> >>
    /\ result = NullErr
    /\ raisedLog = <<>>
    /\ \A k \in 1..Len(flags) : flags[k].current = Null

====
